---- MODULE Spec2Model ----
(***************************************************************************)
(* ShopMate: an express service over a MySQL pool.  src/app.js holds the   *)
(* signup / login / refresh / logout handlers and the verifyToken          *)
(* middleware, src/routes/posts.js the inventory routes and the purchase   *)
(* transaction.  A request is a process: every action below is the code of *)
(* one handler from one await to the next, the awaited storage call being  *)
(* applied at the start of the action.                                     *)
(***************************************************************************)
EXTENDS Integers, Sequences, FiniteSets, TLC

VARIABLES inventory, purchases, users, refresh_tokens, pool,
          pc, arg, loc, resp, now, hist

vars == <<inventory, purchases, users, refresh_tokens, pool,
          pc, arg, loc, resp, now, hist>>

\* ---------------------------------------------------------------- bounds

NReqs == 2
MaxStock == 2
MaxQty == 2
MaxThrows == 2
MaxTicks == 1

Reqs == 1..NReqs
\* The pool never runs out: it opens a connection for every concurrent request.
Conns == 1..NReqs

\* ----------------------------------------------------------- JSON web tokens

AccessTTL == 3600
RefreshTTL == 604800

NoToken == [key |-> "none", id |-> 0, role |-> "none", iat |-> 0, exp |-> 0]

\* jwt.sign({ id, role }, ACCESS_TOKEN, { expiresIn: "1h" }): the token is a
\* function of the payload, the second it is issued at and the signing key.
SignAccess(id, role, t) ==
    [key |-> "ACCESS_TOKEN", id |-> id, role |-> role, iat |-> t, exp |-> t + AccessTTL]

\* jwt.sign({ id }, REFRESH_TOKEN, { expiresIn: "7d" }): no role, no nonce.
SignRefresh(id, t) ==
    [key |-> "REFRESH_TOKEN", id |-> id, role |-> "none", iat |-> t, exp |-> t + RefreshTTL]

\* jwt.verify(token, key): the signature is the key's and the token is unexpired.
JwtVerify(tok, key, t) == tok.key = key /\ t < tok.exp

\* ------------------------------------------------------------- responses

NoData == [none |-> TRUE]
NoResp == [status |-> 0, message |-> "", data |-> NoData]
Reply(code, msg) == [status |-> code, message |-> msg, data |-> NoData]
ReplyData(code, msg, d) == [status |-> code, message |-> msg, data |-> d]

\* ------------------------------------------------------------ middleware

\* verifyToken: 0 when next() is called, else the status answered.
verifyTokenStored(auth, t) ==
    IF auth = NoToken THEN 401
    ELSE IF JwtVerify(auth, "ACCESS_TOKEN", t)
            /\ \E row \in refresh_tokens : row.user_id = auth.id
         THEN 0 ELSE 403

verifyToken(auth, t) ==
    IF auth = NoToken THEN 401
    ELSE IF JwtVerify(auth, "ACCESS_TOKEN", t) THEN 0 ELSE 403

\* authorizeAdmin, over req.user (the verified payload).
authorizeAdmin(user) == IF user.role # "admin" THEN 403 ELSE 0

\* authorizeUser, over req.user.
authorizeUserNoCheck(user) == 0

authorizeUser(user) == IF user.role = "admin" THEN 403 ELSE 0

\* parseInt(req.params.id): the leading decimal digits, NaN (here -1) without any.
IdParams == {"1", "2", "0", "x", "2x"}
NaN == -1
parseInt(s) ==
    CASE s = "1" -> 1
      [] s = "2" -> 2
      [] s = "2x" -> 2
      [] s = "0" -> 0
      [] OTHER -> NaN

\* validateIdParam: 0 when next() is called, else 400.
validateIdParam(s) == IF parseInt(s) = NaN \/ parseInt(s) <= 0 THEN 400 ELSE 0

\* !quantity || quantity <= 0
InvalidQuantity(q) == q = 0 \/ q <= 0

\* ------------------------------------------------------- storage: the pool

\* A connection's session: the open transaction's uncommitted writes and the
\* row locks it holds.  dec and ins carry the request that wrote them (req),
\* which is no column of the tables.
NoTx == [open |-> FALSE, locks |-> {}, dec |-> <<>>, ins |-> <<>>]
FreeConn == [owner |-> 0, tx |-> NoTx]

\* The rows of inventory after a transaction's decrements are committed.
RECURSIVE ApplyDec(_, _)
ApplyDec(inv, dec) ==
    IF dec = <<>> THEN inv
    ELSE LET d == Head(dec)
             inv1 == IF d.item \in DOMAIN inv
                     THEN [inv EXCEPT ![d.item].stock = @ - d.qty]
                     ELSE inv
         IN ApplyDec(inv1, Tail(dec))

\* The requests whose decrement a transaction holds.
DecReqs(t) == {t.dec[k].req : k \in DOMAIN t.dec}

\* An item's row is locked by a transaction of another connection.
LockedByOther(c, i) ==
    \E c2 \in Conns \ {c} : pool[c2].tx.open /\ i \in pool[c2].tx.locks

\* An item's row is locked by any open transaction (a statement of pool.query).
Locked(i) == \E c \in Conns : pool[c].tx.open /\ i \in pool[c].tx.locks

\* "UPDATE inventory SET stock = stock - ? WHERE item_id = ? AND stock >= ?":
\* whether the row matches.
UpdateMatchesNoStockCheck(inv, i, q) == i \in DOMAIN inv

UpdateMatches(inv, i, q) == i \in DOMAIN inv /\ inv[i].stock >= q

\* if (!checkRows.length) 404 "Item not found", else 400 "Insufficient stock".
CheckRowsInverted(inv, i) ==
    IF i \in DOMAIN inv THEN Reply(404, "Item not found")
    ELSE Reply(400, "Insufficient stock")

CheckRows(inv, i) ==
    IF i \notin DOMAIN inv THEN Reply(404, "Item not found")
    ELSE Reply(400, "Insufficient stock")

\* The row of "INSERT INTO purchases (item_id, quantity, user_id)", written by
\* request r.
PurchaseRow(i, q, u, r) == [item_id |-> i, quantity |-> q, user_id |-> u, req |-> r]

\* ---------------------------------------------------------------- history

\* hist is not program state: stock0 is the stock item 1 started with, throws
\* the number of storage calls that threw, committed the requests whose
\* decrement was committed, ticks the number of clock steps, revoked the
\* refresh tokens a logout deleted and no login stored since, deleted the
\* refresh tokens a logout ever deleted, late the refresh requests that
\* arrived with a revoked token, overlap the pairs <<r, q>> of a request r
\* that arrived while request q was being handled, cause[r] why the conditional
\* UPDATE of purchase r matched no row ("absent": no such item then,
\* "insufficient": the item's stock was below the quantity then), kept while
\* the handler is on its way to the 404 or 400 answer.
Hist0(s) == [stock0 |-> s, throws |-> 0, committed |-> {}, ticks |-> 0,
             revoked |-> {}, deleted |-> {}, late |-> {}, overlap |-> {},
             cause |-> [r \in Reqs |-> "none"]]

\* ------------------------------------------------------------------ Init

\* bcrypt.hash(password, 10) and bcrypt.compare(password, hash).
BcryptHash(pw) == [bcrypt |-> pw]
BcryptCompare(pw, h) == h = BcryptHash(pw)

\* The users table, a row's index being its id: two users by signup and an
\* admin provisioned by createUsers.
Users0 ==
    << [username |-> "alice", password |-> BcryptHash("pw1"), role |-> "user"],
       [username |-> "bob", password |-> BcryptHash("pw2"), role |-> "user"],
       [username |-> "root", password |-> BcryptHash("pw3"), role |-> "admin"] >>

Row(name, stock, price) == [item_name |-> name, stock |-> stock, price |-> price]

NoLoc == [conn |-> 0]

InitCommon ==
    /\ purchases = <<>>
    /\ users = Users0
    /\ pool = [c \in Conns |-> FreeConn]
    /\ pc = [r \in Reqs |-> "new"]
    /\ arg = [r \in Reqs |-> [route |-> "none"]]
    /\ loc = [r \in Reqs |-> NoLoc]
    /\ resp = [r \in Reqs |-> NoResp]
    /\ now = 0

\* Item 1 exists with some stock, or no item exists.
InitPurchase ==
    /\ InitCommon
    /\ \/ \E s \in 0..MaxStock :
             /\ inventory = (1 :> Row("pen", s, 5))
             /\ hist = Hist0(s)
       \/ /\ inventory = <<>>
          /\ hist = Hist0(0)
    /\ refresh_tokens = {}

\* --------------------------------------------------------------- requests

\* Requests arrive in the order of their numbers.
CanStart(r) == pc[r] = "new" /\ (IF r = 1 THEN TRUE ELSE pc[r - 1] # "new")

\* The requests being handled.
InFlight == {q \in Reqs : pc[q] \notin {"new", "done", "rejected"}}
Overlaps(r) == hist.overlap \cup {<<r, q>> : q \in InFlight}

\* res.status(code).json(...) ends the request.
Answer(r, rsp) ==
    /\ resp' = [resp EXCEPT ![r] = rsp]
    /\ pc' = [pc EXCEPT ![r] = "done"]

Goto(r, label) == pc' = [pc EXCEPT ![r] = label]

\* A storage call throws.
Throws == hist.throws < MaxThrows /\ hist' = [hist EXCEPT !.throws = @ + 1]

\* ------------------------------------------- POST /inventory/purchase/:id

\* The request up to its first await: verifyToken, authorizeUser,
\* validateIdParam, the quantity check, pool.getConnection() is called.
PurchaseArrive(r, auth, id, q) ==
    /\ CanStart(r)
    /\ arg' = [arg EXCEPT ![r] = [route |-> "purchase", auth |-> auth, id |-> id, quantity |-> q]]
    /\ LET v == verifyToken(auth, now) IN
       IF v # 0 THEN
            /\ Answer(r, Reply(v, IF v = 401 THEN "No token provided" ELSE "Invalid token"))
            /\ UNCHANGED loc
       ELSE IF authorizeUser(auth) # 0 THEN
            /\ Answer(r, Reply(403, "Forbidden: Admins cannot make purchases"))
            /\ UNCHANGED loc
       ELSE IF validateIdParam(id) # 0 THEN
            /\ Answer(r, Reply(400, "Invalid item ID"))
            /\ UNCHANGED loc
       ELSE IF InvalidQuantity(q) THEN
            /\ Answer(r, Reply(400, "Invalid quantity"))
            /\ UNCHANGED loc
       ELSE /\ Goto(r, "getConnection")
            /\ UNCHANGED <<loc, resp>>
    /\ UNCHANGED <<inventory, purchases, users, refresh_tokens, pool, now, hist>>

\* const conn = await pool.getConnection(): a free connection of the pool,
\* with whatever its session holds (of the free connections whose sessions
\* are the same, the first).
PurchaseGetConnection(r) ==
    /\ pc[r] = "getConnection"
    /\ \E c \in Conns :
          /\ pool[c].owner = 0
          /\ \A c2 \in 1..(c - 1) : pool[c2].owner = 0 => pool[c2].tx # pool[c].tx
          /\ pool' = [pool EXCEPT ![c].owner = r]
          /\ loc' = [loc EXCEPT ![r].conn = c]
    /\ Goto(r, "beginTransaction")
    /\ UNCHANGED <<inventory, purchases, users, refresh_tokens, arg, resp, now, hist>>

\* await conn.beginTransaction(): START TRANSACTION commits the transaction
\* the session still holds, if any, and opens a new one.
PurchaseBeginTransaction(r) ==
    /\ pc[r] = "beginTransaction"
    /\ LET c == loc[r].conn
           t == pool[c].tx
       IN /\ inventory' = ApplyDec(inventory, t.dec)
          /\ purchases' = purchases \o t.ins
          /\ hist' = [hist EXCEPT !.committed = @ \cup DecReqs(t)]
          /\ pool' = [pool EXCEPT ![c].tx = [NoTx EXCEPT !.open = TRUE]]
    /\ Goto(r, "update")
    /\ UNCHANGED <<users, refresh_tokens, arg, loc, resp, now>>

\* The conditional UPDATE (lines 135-138) and the test of affectedRows.  The
\* statement waits while another transaction holds the row's lock.
PurchaseUpdate(r) ==
    /\ pc[r] = "update"
    /\ LET c == loc[r].conn
           i == parseInt(arg[r].id)
           q == arg[r].quantity
       IN /\ ~LockedByOther(c, i)
          /\ IF UpdateMatches(inventory, i, q)
             THEN /\ pool' = [pool EXCEPT ![c].tx.locks = @ \cup {i},
                                          ![c].tx.dec = Append(@, [item |-> i, qty |-> q, req |-> r])]
                  /\ Goto(r, "insert")
                  /\ UNCHANGED hist
             ELSE /\ pool' = [pool EXCEPT ![c].tx.locks =
                                 IF i \in DOMAIN inventory THEN @ \cup {i} ELSE @]
                  /\ Goto(r, "rollback")
                  /\ hist' = [hist EXCEPT !.cause[r] =
                                 IF i \in DOMAIN inventory THEN "insufficient" ELSE "absent"]
    /\ UNCHANGED <<inventory, purchases, users, refresh_tokens, arg, loc, resp, now>>

\* await conn.rollback() of line 141.
PurchaseRollback(r) ==
    /\ pc[r] = "rollback"
    /\ pool' = [pool EXCEPT ![loc[r].conn].tx = NoTx]
    /\ Goto(r, "select")
    /\ UNCHANGED <<inventory, purchases, users, refresh_tokens, arg, loc, resp, now, hist>>

\* The follow-up SELECT (line 142), the 404 or 400 answer, and the finally
\* block's conn.release().
PurchaseCheckRows(r) ==
    /\ pc[r] = "select"
    /\ Answer(r, CheckRows(inventory, parseInt(arg[r].id)))
    /\ pool' = [pool EXCEPT ![loc[r].conn].owner = 0]
    /\ UNCHANGED <<inventory, purchases, users, refresh_tokens, arg, loc, now, hist>>

\* INSERT INTO purchases (line 147), inside the transaction.
PurchaseInsert(r) ==
    /\ pc[r] = "insert"
    /\ pool' = [pool EXCEPT ![loc[r].conn].tx.ins =
                   Append(@, PurchaseRow(parseInt(arg[r].id), arg[r].quantity, arg[r].auth.id, r))]
    /\ Goto(r, "commit")
    /\ UNCHANGED <<inventory, purchases, users, refresh_tokens, arg, loc, resp, now, hist>>

\* await conn.commit(), the 200 answer, and conn.release().
PurchaseCommit(r) ==
    /\ pc[r] = "commit"
    /\ LET c == loc[r].conn
           t == pool[c].tx
       IN /\ inventory' = ApplyDec(inventory, t.dec)
          /\ purchases' = purchases \o t.ins
          /\ hist' = [hist EXCEPT !.committed = @ \cup DecReqs(t)]
          /\ pool' = [pool EXCEPT ![c] = FreeConn]
    /\ Answer(r, Reply(200, "Purchase successful"))
    /\ UNCHANGED <<users, refresh_tokens, arg, loc, now>>

\* A storage call inside the try block throws (it has no effect): control
\* goes to the catch block.
PurchaseThrow(r) ==
    /\ pc[r] \in {"beginTransaction", "update", "rollback", "select", "insert", "commit"}
    /\ Goto(r, "catch")
    /\ hist.throws < MaxThrows
    /\ hist' = [hist EXCEPT !.throws = @ + 1, !.cause[r] = "none"]
    /\ UNCHANGED <<inventory, purchases, users, refresh_tokens, pool, arg, loc, resp, now>>

\* The catch block: await conn.rollback(), the 500 answer, conn.release().
PurchaseCatch(r) ==
    /\ pc[r] = "catch"
    /\ pool' = [pool EXCEPT ![loc[r].conn] = FreeConn]
    /\ Answer(r, Reply(500, "Transaction failed"))
    /\ UNCHANGED <<inventory, purchases, users, refresh_tokens, arg, loc, now, hist>>

\* The catch block's rollback throws: the handler's promise rejects with no
\* answer sent, and finally releases the connection.  The session either
\* keeps its transaction open, or was lost and the server rolled it back.
PurchaseCatchThrow(r) ==
    /\ pc[r] = "catch"
    /\ \/ pool' = [pool EXCEPT ![loc[r].conn].owner = 0]
       \/ pool' = [pool EXCEPT ![loc[r].conn] = FreeConn]
    /\ Goto(r, "rejected")
    /\ Throws
    /\ UNCHANGED <<inventory, purchases, users, refresh_tokens, arg, loc, resp, now>>

\* pool.getConnection() throws, outside the try block: the handler's promise
\* rejects with no answer sent.
PurchaseGetConnectionThrow(r) ==
    /\ pc[r] = "getConnection"
    /\ Goto(r, "rejected")
    /\ Throws
    /\ UNCHANGED <<inventory, purchases, users, refresh_tokens, pool, arg, loc, resp, now>>

\* Request r is user 1's or user 2's, with that user's valid access token.
UserOf(r) == ((r - 1) % 2) + 1
UserToken(r) == SignAccess(UserOf(r), "user", 0)
Quantities == 0..MaxQty

NextPurchase ==
    \E r \in Reqs :
        \/ \E q \in Quantities : PurchaseArrive(r, UserToken(r), "1", q)
        \/ PurchaseGetConnection(r)
        \/ PurchaseBeginTransaction(r)
        \/ PurchaseUpdate(r)
        \/ PurchaseRollback(r)
        \/ PurchaseCheckRows(r)
        \/ PurchaseInsert(r)
        \/ PurchaseCommit(r)
        \/ PurchaseThrow(r)
        \/ PurchaseCatch(r)
        \/ PurchaseCatchThrow(r)
        \/ PurchaseGetConnectionThrow(r)

SpecPurchase == InitPurchase /\ [][NextPurchase]_vars

\* ------------------------------------------------- the purchase transaction

RECURSIVE SumOver(_, _)
\* The sum of f[r] over the requests of S.
SumOver(S, f) ==
    IF S = {} THEN 0
    ELSE LET r == CHOOSE x \in S : TRUE IN f[r] + SumOver(S \ {r}, f)

Min(a, b) == IF a <= b THEN a ELSE b

Finished(r) == pc[r] \in {"done", "rejected"}
IsPurchase(r) == arg[r].route = "purchase"
Answered(r, code) == pc[r] = "done" /\ resp[r].status = code
Purchased == {r \in Reqs : IsPurchase(r) /\ Answered(r, 200)}
QuantityOf == [r \in Reqs |-> IF IsPurchase(r) THEN arg[r].quantity ELSE 0]

\* The stock of item 1 as a session sees it: the committed stock less the
\* decrement its own open transaction holds.
StockSeenBy(c) ==
    ApplyDec(inventory, pool[c].tx.dec)[1].stock

\* C1: with item 1 starting at stock0 >= 0 and only purchases running, under
\* every interleaving (storage failures included) the stock of item 1, committed
\* or as seen inside any open transaction, is never negative, and the quantities
\* of the purchases answered 200 sum to at most stock0.
C1_StockNeverNegative ==
    /\ 1 \in DOMAIN inventory =>
          /\ inventory[1].stock >= 0
          /\ \A c \in Conns : StockSeenBy(c) >= 0
    /\ SumOver(Purchased, QuantityOf) <= hist.stock0

\* Two purchases raced for a stock that covers only one of them: one was
\* answered 200, the other 400, and the stock is used up.
C1_Witness ==
    \E r1 \in Reqs, r2 \in Reqs :
        /\ Answered(r1, 200) /\ Answered(r2, 400)
        /\ resp[r2].message = "Insufficient stock"
        /\ arg[r1].quantity + arg[r2].quantity > hist.stock0
        /\ 1 \in DOMAIN inventory /\ inventory[1].stock = 0

\* C2: once NReqs purchases of one quantity q > 0 against the existing item 1
\* have all completed with no storage failure, exactly min(NReqs, stock0 \div q)
\* were answered 200, every other one 400 "Insufficient stock", and the stock
\* is stock0 - q * min(NReqs, stock0 \div q).
C2_ExactlyMinSucceed ==
    LET q == arg[1].quantity
        n == Min(NReqs, hist.stock0 \div q)
    IN  ( /\ \A r \in Reqs : Finished(r) /\ IsPurchase(r) /\ arg[r].quantity = q
          /\ q > 0
          /\ hist.throws = 0
          /\ 1 \in DOMAIN inventory )
        => /\ Cardinality(Purchased) = n
           /\ \A r \in Reqs \ Purchased :
                 Answered(r, 400) /\ resp[r].message = "Insufficient stock"
           /\ inventory[1].stock = hist.stock0 - q * n

\* All requests bought the same quantity, some were answered 200 and some 400.
C2_Witness ==
    /\ \A r \in Reqs : Finished(r) /\ IsPurchase(r) /\ arg[r].quantity = arg[1].quantity
    /\ arg[1].quantity > 0 /\ hist.throws = 0 /\ 1 \in DOMAIN inventory
    /\ Purchased # {} /\ Purchased # Reqs

\* The purchases rows written by request r.
RecordsOf(r) == {k \in DOMAIN purchases : purchases[k].req = r}

RECURSIVE SumQuantity(_)
\* The sum of the quantities of a sequence of purchases rows.
SumQuantity(rows) ==
    IF rows = <<>> THEN 0 ELSE Head(rows).quantity + SumQuantity(Tail(rows))

\* C3: a purchase request that ended without a 200 answer has no committed
\* decrement and no purchases row: the committed state is as if it had never
\* been made.
C3_NoTraceUnlessAnswered200 ==
    \A r \in Reqs :
        (IsPurchase(r) /\ Finished(r) /\ resp[r].status # 200)
            => r \notin hist.committed /\ RecordsOf(r) = {}

\* C4: in every committed state each purchase whose decrement is committed has
\* exactly one purchases row, with its item id, quantity and user id, no row
\* exists without its decrement, and the committed stock of item 1 plus the
\* quantities of the purchases rows equals the initial stock.
C4_OneRecordPerCommittedDecrement ==
    /\ \A r \in Reqs :
          /\ r \in hist.committed => Cardinality(RecordsOf(r)) = 1
          /\ \A k \in RecordsOf(r) :
                /\ r \in hist.committed
                /\ purchases[k].item_id = parseInt(arg[r].id)
                /\ purchases[k].quantity = arg[r].quantity
                /\ purchases[k].user_id = arg[r].auth.id
    /\ 1 \in DOMAIN inventory =>
          inventory[1].stock + SumQuantity(purchases) = hist.stock0

\* ------------------------------------------------------- inventory routes

\* A storage call of a pool.query handler throws: its catch block answers 500.
QueryThrow(r) ==
    /\ pc[r] \in {"createInsert", "deleteSelect", "deleteDelete", "getSelect"}
    /\ Throws
    /\ Answer(r, Reply(500, "Database error"))
    /\ UNCHANGED <<inventory, purchases, users, refresh_tokens, pool, arg, loc, now>>

\* The answer of verifyToken, NoResp when it calls next().
VerifyGate(auth, t) ==
    CASE verifyToken(auth, t) = 401 -> Reply(401, "No token provided")
      [] verifyToken(auth, t) = 403 -> Reply(403, "Invalid token")
      [] OTHER -> NoResp

\* verifyToken, then authorizeAdmin: NoResp when the route's handler is reached.
AdminGate(auth, t) ==
    IF VerifyGate(auth, t) # NoResp THEN VerifyGate(auth, t)
    ELSE IF authorizeAdmin(auth) # 0 THEN Reply(403, "Forbidden: Admin privilege required")
    ELSE NoResp

\* POST /inventory up to its first await: verifyToken, authorizeAdmin, the
\* test for missing fields (a missing field is 0, "" or hasStock = FALSE).
CreateArrive(r, auth, body) ==
    /\ CanStart(r)
    /\ arg' = [arg EXCEPT ![r] = [route |-> "create", auth |-> auth, body |-> body]]
    /\ IF AdminGate(auth, now) # NoResp
       THEN Answer(r, AdminGate(auth, now))
       ELSE IF body.id = 0 \/ body.name = "" \/ ~body.hasStock
       THEN Answer(r, Reply(400, "Missing fields"))
       ELSE Goto(r, "createInsert") /\ UNCHANGED resp
    /\ UNCHANGED <<inventory, purchases, users, refresh_tokens, pool, loc, now, hist>>

\* A query's argument as the statement carries it: undefined is sent as NULL.
Undefined == 0 - 1
Null == 0 - 2
SqlValue(v) == IF v = Undefined THEN Null ELSE v

\* INSERT ... ON DUPLICATE KEY UPDATE in place of the INSERT of line 86.
CreateInsertOverwrite(r) ==
    /\ pc[r] = "createInsert"
    /\ LET b == arg[r].body IN
          /\ ~Locked(b.id)
          /\ inventory' = [j \in DOMAIN inventory \cup {b.id} |->
                              IF j = b.id THEN Row(b.name, b.stock, SqlValue(b.price))
                              ELSE inventory[j]]
          /\ Answer(r, ReplyData(201, "Item added successfully",
                                 [id |-> b.id, name |-> b.name, stock |-> b.stock, price |-> b.price]))
    /\ UNCHANGED <<purchases, users, refresh_tokens, pool, arg, loc, now, hist>>

\* The INSERT INTO inventory (line 86) and its answer: 201 with the fields of
\* the body, or 400 on ER_DUP_ENTRY.  The duplicate check waits for the lock
\* an open transaction holds on the existing row.
CreateInsert(r) ==
    /\ pc[r] = "createInsert"
    /\ LET b == arg[r].body IN
       IF b.id \in DOMAIN inventory
       THEN /\ ~Locked(b.id)
            /\ Answer(r, Reply(400, "ID already exists"))
            /\ UNCHANGED inventory
       ELSE /\ inventory' = inventory @@ (b.id :> Row(b.name, b.stock, SqlValue(b.price)))
            /\ Answer(r, ReplyData(201, "Item added successfully",
                                   [id |-> b.id, name |-> b.name, stock |-> b.stock, price |-> b.price]))
    /\ UNCHANGED <<purchases, users, refresh_tokens, pool, arg, loc, now, hist>>

\* PUT /inventory/:id: verifyToken, authorizeAdmin, validateIdParam; then the
\* argument list [name, stock, price, req.itemId] of line 99 reads price, which
\* the handler never declares (line 97 takes name and stock only): the
\* ReferenceError is thrown inside the try block before any query is sent, and
\* the catch block answers 500.
UpdateArrive(r, auth, id, body) ==
    /\ CanStart(r)
    /\ arg' = [arg EXCEPT ![r] = [route |-> "update", auth |-> auth, id |-> id, body |-> body]]
    /\ IF AdminGate(auth, now) # NoResp
       THEN Answer(r, AdminGate(auth, now))
       ELSE IF validateIdParam(id) # 0
       THEN Answer(r, Reply(400, "Invalid item ID"))
       ELSE Answer(r, Reply(500, "Database error"))
    /\ UNCHANGED <<inventory, purchases, users, refresh_tokens, pool, loc, now, hist>>

\* DELETE /inventory/:id up to its first await.
DeleteArrive(r, auth, id) ==
    /\ CanStart(r)
    /\ arg' = [arg EXCEPT ![r] = [route |-> "delete", auth |-> auth, id |-> id]]
    /\ IF AdminGate(auth, now) # NoResp
       THEN Answer(r, AdminGate(auth, now))
       ELSE IF validateIdParam(id) # 0
       THEN Answer(r, Reply(400, "Invalid item ID"))
       ELSE Goto(r, "deleteSelect") /\ UNCHANGED resp
    /\ UNCHANGED <<inventory, purchases, users, refresh_tokens, pool, loc, now, hist>>

\* The SELECT of line 113 (a read of the committed row) and the 404 answer.
DeleteSelect(r) ==
    /\ pc[r] = "deleteSelect"
    /\ LET i == parseInt(arg[r].id) IN
       IF i \notin DOMAIN inventory
       THEN Answer(r, Reply(404, "Item not found")) /\ UNCHANGED loc
       ELSE /\ loc' = [loc EXCEPT ![r] = [conn |-> 0, rows |-> inventory[i]]]
            /\ Goto(r, "deleteDelete")
            /\ UNCHANGED resp
    /\ UNCHANGED <<inventory, purchases, users, refresh_tokens, pool, arg, now, hist>>

\* The DELETE of line 116, which waits for the row's lock, and the 200 answer
\* with the row read at line 113.
DeleteDelete(r) ==
    /\ pc[r] = "deleteDelete"
    /\ LET i == parseInt(arg[r].id) IN
          /\ ~Locked(i)
          /\ inventory' = [j \in DOMAIN inventory \ {i} |-> inventory[j]]
    /\ Answer(r, ReplyData(200, "Item deleted successfully", loc[r].rows))
    /\ UNCHANGED <<purchases, users, refresh_tokens, pool, arg, loc, now, hist>>

\* GET /inventory/:id up to its first await: verifyToken, validateIdParam.
GetArrive(r, auth, id) ==
    /\ CanStart(r)
    /\ arg' = [arg EXCEPT ![r] = [route |-> "get", auth |-> auth, id |-> id]]
    /\ IF VerifyGate(auth, now) # NoResp
       THEN Answer(r, VerifyGate(auth, now))
       ELSE IF validateIdParam(id) # 0
       THEN Answer(r, Reply(400, "Invalid item ID"))
       ELSE Goto(r, "getSelect") /\ UNCHANGED resp
    /\ hist' = [hist EXCEPT !.overlap = Overlaps(r)]
    /\ UNCHANGED <<inventory, purchases, users, refresh_tokens, pool, loc, now>>

\* The SELECT of line 71 and its answer.
GetSelect(r) ==
    /\ pc[r] = "getSelect"
    /\ LET i == parseInt(arg[r].id) IN
       IF i \notin DOMAIN inventory
       THEN Answer(r, Reply(404, "Item not found"))
       ELSE Answer(r, ReplyData(200, "", inventory[i]))
    /\ UNCHANGED <<inventory, purchases, users, refresh_tokens, pool, arg, loc, now, hist>>

\* The Authorization headers a request may carry: none, the request's user's
\* token, an admin's token, an admin token signed with another key, an admin
\* token issued an hour ago (expired).
AdminToken == SignAccess(3, "admin", 0)
ForgedAdminToken == [AdminToken EXCEPT !.key = "other"]
ExpiredAdminToken == SignAccess(3, "admin", 0 - AccessTTL)
AuthHeaders(r) == {NoToken, UserToken(r), AdminToken, ForgedAdminToken, ExpiredAdminToken}

Body(id, name, stock, hasStock, price) ==
    [id |-> id, name |-> name, stock |-> stock, hasStock |-> hasStock, price |-> price]

\* Bodies of POST /inventory: a new item, an existing id, a negative stock,
\* no stock, no name, no id, no price.
CreateBodies ==
    {Body(2, "ink", 1, TRUE, 7), Body(1, "ink", 1, TRUE, 7), Body(2, "ink", -1, TRUE, 7),
     Body(2, "ink", 0, FALSE, 7), Body(2, "", 1, TRUE, 7), Body(0, "ink", 1, TRUE, 7),
     Body(2, "ink", 1, TRUE, Undefined)}

\* The body of PUT /inventory/:id.
UpdateBody == Body(0, "cap", 2, TRUE, 9)

\* Item 1 exists with stock 1, item 2 does not.
InitInventory ==
    /\ InitCommon
    /\ inventory = (1 :> Row("pen", 1, 5))
    /\ hist = Hist0(1)
    /\ refresh_tokens = {}

NextInventory ==
    \E r \in Reqs :
        \/ \E auth \in AuthHeaders(r) : PurchaseArrive(r, auth, "1", 1)
        \/ \E q \in Quantities : PurchaseArrive(r, UserToken(r), "1", q)
        \/ PurchaseGetConnection(r)
        \/ PurchaseBeginTransaction(r)
        \/ PurchaseUpdate(r)
        \/ PurchaseRollback(r)
        \/ PurchaseCheckRows(r)
        \/ PurchaseInsert(r)
        \/ PurchaseCommit(r)
        \/ \E auth \in AuthHeaders(r) : CreateArrive(r, auth, Body(2, "ink", 1, TRUE, 7))
        \/ \E body \in CreateBodies : CreateArrive(r, AdminToken, body)
        \/ CreateInsert(r)
        \/ \E auth \in AuthHeaders(r) : UpdateArrive(r, auth, "1", UpdateBody)
        \/ \E id \in IdParams : UpdateArrive(r, AdminToken, id, UpdateBody)
        \/ \E auth \in AuthHeaders(r) : DeleteArrive(r, auth, "1")
        \/ \E id \in IdParams : DeleteArrive(r, AdminToken, id)
        \/ DeleteSelect(r)
        \/ DeleteDelete(r)
        \/ \E auth \in {NoToken, UserToken(r), AdminToken}, id \in {"1", "2"} : GetArrive(r, auth, id)
        \/ GetSelect(r)
        \/ QueryThrow(r)

SpecInventory == InitInventory /\ [][NextInventory]_vars

\* --------------------------------------------------------- role gating

\* The request's access token verifies (the clock stands still in
\* SpecInventory, so this is the verdict verifyToken reached on arrival).
ValidToken(r) == JwtVerify(arg[r].auth, "ACCESS_TOKEN", now)
IsAdminWrite(r) == arg[r].route \in {"create", "update", "delete"}
IsWrite(r) == IsPurchase(r) \/ IsAdminWrite(r)

\* The request's token entitles it to its route.
Entitled(r) ==
    /\ ValidToken(r)
    /\ IsPurchase(r) => arg[r].auth.role # "admin"
    /\ IsAdminWrite(r) => arg[r].auth.role = "admin"

Gated(r) ==
    IsWrite(r) =>
        /\ arg[r].auth = NoToken => Answered(r, 401)
        /\ (arg[r].auth # NoToken /\ ~ValidToken(r)) => Answered(r, 403)
        /\ (ValidToken(r) /\ ~Entitled(r)) => Answered(r, 403)

\* C5: a purchase request with a verified admin token and a create, update or
\* delete request with a verified non-admin token are answered 403, a request
\* with no token 401 and one with an invalid token 403; and every step that
\* changes the inventory or the purchases table is a step of a request whose
\* verified token entitles it to its route.
C5_RoleGating ==
    [][ /\ \A r \in Reqs : Gated(r)'
        /\ (inventory' # inventory \/ purchases' # purchases) =>
              \E r \in Reqs : pc'[r] # pc[r] /\ IsWrite(r) /\ Entitled(r) ]_vars

\* An admin's purchase and a user's inventory write were both answered 403,
\* and the tables are as they started.
C5_Witness ==
    \E r1 \in Reqs, r2 \in Reqs :
        /\ IsPurchase(r1) /\ arg[r1].auth = AdminToken /\ Answered(r1, 403)
        /\ IsAdminWrite(r2) /\ arg[r2].auth = UserToken(r2) /\ Answered(r2, 403)
        /\ inventory = (1 :> Row("pen", 1, 5)) /\ purchases = <<>>

\* ------------------------------------------------------------- update

\* C10: an admin's update of an existing item replaces the row's name, stock
\* and price with the request's and answers 200 with the updated row; for an
\* absent item it answers 404 and changes nothing.
C10_UpdateReplacesRow ==
    [][ \A r \in Reqs :
          ( /\ pc[r] = "new" /\ pc'[r] # "new"
            /\ arg'[r].route = "update"
            /\ arg'[r].auth = AdminToken
            /\ validateIdParam(arg'[r].id) = 0 )
          => LET i == parseInt(arg'[r].id)
                 b == arg'[r].body
             IN IF i \in DOMAIN inventory
                THEN /\ resp'[r].status = 200
                     /\ i \in DOMAIN inventory'
                     /\ inventory'[i] = Row(b.name, b.stock, b.price)
                     /\ resp'[r].data = inventory'[i]
                ELSE /\ resp'[r].status = 404
                     /\ inventory' = inventory ]_vars

\* ------------------------------------------------ login, refresh, logout

\* A row of refresh_tokens; session, the login that stored it, is no column.
TokenRow(id, tok, exp, session) ==
    [user_id |-> id, token |-> tok, expires_at |-> exp, session |-> session]

\* "SELECT * FROM users WHERE username = ? LIMIT 1": the ids of the rows.
UsersNamed(name) == {id \in DOMAIN users : users[id].username = name}

\* "SELECT * FROM refresh_tokens WHERE user_id = ? AND token = ?"
TokenRows(tbl, id, tok) == {row \in tbl : row.user_id = id /\ row.token = tok}

\* "DELETE FROM refresh_tokens WHERE token = ?": the table afterwards.
DeleteByTokenNothing(tbl, tok) == tbl

DeleteByToken(tbl, tok) == {row \in tbl : row.token # tok}

\* A storage call of login, refresh or logout throws: login and logout answer
\* 500 "Database error", refresh 403 "Invalid refresh token".
AuthThrow(r) ==
    /\ pc[r] \in {"loginSelect", "loginInsert", "refreshSelectToken", "refreshSelectUser",
                  "logoutDelete"}
    /\ Throws
    /\ IF arg[r].route = "refresh"
       THEN Answer(r, Reply(403, "Invalid refresh token"))
       ELSE Answer(r, Reply(500, "Database error"))
    /\ UNCHANGED <<inventory, purchases, users, refresh_tokens, pool, arg, loc, now>>

\* POST /login up to its first await.
LoginArrive(r, username, password) ==
    /\ CanStart(r)
    /\ arg' = [arg EXCEPT ![r] = [route |-> "login", username |-> username, password |-> password]]
    /\ IF username = "" \/ password = ""
       THEN Answer(r, Reply(400, "Username and password required"))
       ELSE Goto(r, "loginSelect") /\ UNCHANGED resp
    /\ UNCHANGED <<inventory, purchases, users, refresh_tokens, pool, loc, now, hist>>

\* The SELECT of lines 57-60, the 401 answer, bcrypt.compare is called.
LoginSelect(r) ==
    /\ pc[r] = "loginSelect"
    /\ IF UsersNamed(arg[r].username) = {}
       THEN Answer(r, Reply(401, "Invalid username or password")) /\ UNCHANGED loc
       ELSE \E id \in UsersNamed(arg[r].username) :
               /\ loc' = [loc EXCEPT ![r] = [conn |-> 0, id |-> id, user |-> users[id]]]
               /\ Goto(r, "loginCompare")
               /\ UNCHANGED resp
    /\ UNCHANGED <<inventory, purchases, users, refresh_tokens, pool, arg, now, hist>>

\* bcrypt.compare resolves: the 401 answer, or both tokens are signed at the
\* present second (lines 67-70) and the INSERT is sent.
LoginCompare(r) ==
    /\ pc[r] = "loginCompare"
    /\ IF ~BcryptCompare(arg[r].password, loc[r].user.password)
       THEN Answer(r, Reply(401, "Invalid username or password")) /\ UNCHANGED loc
       ELSE /\ loc' = [loc EXCEPT ![r] =
                          [conn |-> 0, id |-> loc[r].id, user |-> loc[r].user,
                           accessToken |-> SignAccess(loc[r].id, loc[r].user.role, now),
                           refreshToken |-> SignRefresh(loc[r].id, now),
                           expiresAt |-> now + RefreshTTL]]
            /\ Goto(r, "loginInsert")
            /\ UNCHANGED resp
    /\ UNCHANGED <<inventory, purchases, users, refresh_tokens, pool, arg, now, hist>>

\* The INSERT INTO refresh_tokens (lines 71-74) and the answer.
LoginInsert(r) ==
    /\ pc[r] = "loginInsert"
    /\ refresh_tokens' = refresh_tokens \cup
          {TokenRow(loc[r].id, loc[r].refreshToken, loc[r].expiresAt, r)}
    /\ Answer(r, ReplyData(200, "", [accessToken |-> loc[r].accessToken,
                                     refreshToken |-> loc[r].refreshToken,
                                     role |-> loc[r].user.role]))
    /\ hist' = [hist EXCEPT !.revoked = @ \ {loc[r].refreshToken},
                            !.late = {q \in @ : arg[q].token # loc[r].refreshToken}]
    /\ UNCHANGED <<inventory, purchases, users, pool, arg, loc, now>>

\* POST /refresh up to its first await: the 401 answer, jwt.verify (whose
\* exception the catch block answers with 403), the SELECT is sent.  session
\* is the login whose client sends the request.
RefreshArrive(r, token, session) ==
    /\ CanStart(r)
    /\ arg' = [arg EXCEPT ![r] = [route |-> "refresh", token |-> token, session |-> session]]
    /\ IF token = NoToken
       THEN Answer(r, Reply(401, "No refresh token provided"))
       ELSE IF ~JwtVerify(token, "REFRESH_TOKEN", now)
       THEN Answer(r, Reply(403, "Invalid refresh token"))
       ELSE Goto(r, "refreshSelectToken") /\ UNCHANGED resp
    /\ hist' = [hist EXCEPT !.late = IF token \in hist.revoked THEN @ \cup {r} ELSE @,
                            !.overlap = Overlaps(r)]
    /\ UNCHANGED <<inventory, purchases, users, refresh_tokens, pool, loc, now>>

\* The SELECT of lines 90-93 and the 403 answer.
RefreshSelectTokenNoLookup(r) ==
    /\ pc[r] = "refreshSelectToken"
    /\ Goto(r, "refreshSelectUser")
    /\ UNCHANGED <<inventory, purchases, users, refresh_tokens, pool, arg, loc, resp, now, hist>>

RefreshSelectToken(r) ==
    /\ pc[r] = "refreshSelectToken"
    /\ IF TokenRows(refresh_tokens, arg[r].token.id, arg[r].token) = {}
       THEN Answer(r, Reply(403, "Invalid refresh token"))
       ELSE Goto(r, "refreshSelectUser") /\ UNCHANGED resp
    /\ UNCHANGED <<inventory, purchases, users, refresh_tokens, pool, arg, loc, now, hist>>

\* The SELECT of line 96, the 404 answer, or the new access token signed at
\* the present second with the role of the user's row.
RefreshSelectUserConsuming(r) ==
    /\ pc[r] = "refreshSelectUser"
    /\ LET id == arg[r].token.id IN
       IF id \notin DOMAIN users
       THEN Answer(r, Reply(404, "User not found")) /\ UNCHANGED refresh_tokens
       ELSE /\ Answer(r, ReplyData(200, "", [accessToken |-> SignAccess(id, users[id].role, now)]))
            /\ refresh_tokens' = DeleteByToken(refresh_tokens, arg[r].token)
    /\ UNCHANGED <<inventory, purchases, users, pool, arg, loc, now, hist>>

RefreshSelectUser(r) ==
    /\ pc[r] = "refreshSelectUser"
    /\ LET id == arg[r].token.id IN
       IF id \notin DOMAIN users
       THEN Answer(r, Reply(404, "User not found"))
       ELSE Answer(r, ReplyData(200, "", [accessToken |-> SignAccess(id, users[id].role, now)]))
    /\ UNCHANGED <<inventory, purchases, users, refresh_tokens, pool, arg, loc, now, hist>>

\* POST /logout up to its first await.
LogoutArrive(r, token, session) ==
    /\ CanStart(r)
    /\ arg' = [arg EXCEPT ![r] = [route |-> "logout", token |-> token, session |-> session]]
    /\ IF token = NoToken
       THEN Answer(r, Reply(400, "No refresh token provided"))
       ELSE Goto(r, "logoutDelete") /\ UNCHANGED resp
    /\ hist' = [hist EXCEPT !.overlap = Overlaps(r)]
    /\ UNCHANGED <<inventory, purchases, users, refresh_tokens, pool, loc, now>>

\* The DELETE of line 115 and the answer.
LogoutDelete(r) ==
    /\ pc[r] = "logoutDelete"
    /\ refresh_tokens' = DeleteByToken(refresh_tokens, arg[r].token)
    /\ Answer(r, Reply(200, "Logged out successfully"))
    /\ hist' = [hist EXCEPT !.revoked = @ \cup {arg[r].token},
                            !.deleted = @ \cup {arg[r].token}]
    /\ UNCHANGED <<inventory, purchases, users, pool, arg, loc, now>>

\* Time passes: a second, the life of an access token, that of a refresh token.
Tick ==
    /\ hist.ticks < MaxTicks
    /\ \E d \in {1, AccessTTL, RefreshTTL} : now' = now + d
    /\ hist' = [hist EXCEPT !.ticks = @ + 1]
    /\ UNCHANGED <<inventory, purchases, users, refresh_tokens, pool, pc, arg, loc, resp>>

\* The session of a login of alice this second is stored.
Session0 == TokenRow(1, SignRefresh(1, 0), RefreshTTL, 0)

InitAuth ==
    /\ InitCommon
    /\ inventory = (1 :> Row("pen", 1, 5))
    /\ hist = Hist0(1)
    /\ refresh_tokens = {Session0}

\* The refresh tokens clients hold, each with the login it was answered to.
Issued ==
    {[session |-> 0, token |-> Session0.token]} \cup
    {[session |-> q, token |-> resp[q].data.refreshToken] :
        q \in {x \in Reqs : arg[x].route = "login" /\ Answered(x, 200)}}

\* What a client may send as its refresh token: nothing, an access token, a
\* refresh token it holds.
NoSession == 0 - 1
Presented ==
    {[session |-> NoSession, token |-> NoToken], [session |-> NoSession, token |-> AdminToken]}
        \cup Issued

\* Name and password of a login: right, wrong password, an admin, no such
\* user, no name.
Logins ==
    {<<"alice", "pw1">>, <<"alice", "bad">>, <<"root", "pw3">>, <<"carol", "pw1">>, <<"", "pw1">>}

NextAuth ==
    \/ \E r \in Reqs :
          \/ \E l \in Logins : LoginArrive(r, l[1], l[2])
          \/ LoginSelect(r)
          \/ LoginCompare(r)
          \/ LoginInsert(r)
          \/ \E p \in Presented : RefreshArrive(r, p.token, p.session)
          \/ RefreshSelectToken(r)
          \/ RefreshSelectUser(r)
          \/ \E p \in Presented : LogoutArrive(r, p.token, p.session)
          \/ LogoutDelete(r)
          \/ AuthThrow(r)
    \/ Tick

SpecAuth == InitAuth /\ [][NextAuth]_vars

\* ------------------------------------------------- the refresh token's life

IsRefresh(r) == arg[r].route = "refresh"
IsLogout(r) == arg[r].route = "logout"
Stored(tok) == \E row \in refresh_tokens : row.token = tok

\* C6: a refresh request that arrived after a logout with its token had been
\* answered 200, no login having stored the token again since, is answered 403
\* and is given no access token.
C6_RefreshAfterLogoutForbidden ==
    \A r \in Reqs :
        (IsRefresh(r) /\ r \in hist.late /\ Finished(r))
            => Answered(r, 403) /\ resp[r].data = NoData

\* A logout was answered 200, then a refresh arrived with the same token, which
\* is still unexpired, and was answered 403 by the lookup of the stored row.
C6_Witness ==
    \E r1 \in Reqs, r2 \in Reqs :
        /\ IsLogout(r1) /\ Answered(r1, 200)
        /\ IsRefresh(r2) /\ r2 \in hist.late /\ Answered(r2, 403)
        /\ arg[r2].token = arg[r1].token /\ arg[r2].token = Session0.token
        /\ now < arg[r2].token.exp
        /\ hist.throws = 0

\* C7, as claimed: of a logout and a refresh of the same stored token that run
\* concurrently, never both succeed (the logout answered 200 with the row
\* deleted, the refresh answered 200 with a new access token).
C7_AtMostOneSucceeds ==
    ~ \E r1 \in Reqs, r2 \in Reqs :
        /\ IsLogout(r1) /\ IsRefresh(r2) /\ arg[r1].token = arg[r2].token
        /\ (<<r1, r2>> \in hist.overlap \/ <<r2, r1>> \in hist.overlap)
        /\ Answered(r1, 200) /\ ~Stored(arg[r1].token)
        /\ Answered(r2, 200) /\ resp[r2].data # NoData

\* C7, amended: a refresh whose lookup of the stored row runs once a logout has
\* deleted the token's rows (and no login has stored it since) is answered 403
\* and is given no access token, also when it arrived before the logout.
C7_LookupAfterDeleteForbidden ==
    [][ \A r \in Reqs :
          (pc[r] = "refreshSelectToken" /\ arg[r].token \in hist.revoked /\ pc'[r] # pc[r])
              => resp'[r].status = 403 /\ resp'[r].data = NoData ]_vars

\* A refresh arrived first, the logout of its token ran while it waited for
\* its lookup, and the refresh was answered 403.
C7_Witness ==
    \E r1 \in Reqs, r2 \in Reqs :
        /\ IsLogout(r1) /\ IsRefresh(r2) /\ arg[r1].token = arg[r2].token
        /\ <<r1, r2>> \in hist.overlap
        /\ Answered(r1, 200) /\ Answered(r2, 403)
        /\ hist.throws = 0

\* C8: a logout sent by the client of one login removes that session's row
\* only: the row of every other session is still stored after it.
C8_LogoutRemovesOwnSessionOnly ==
    [][ \A r \in Reqs :
          (pc[r] = "logoutDelete" /\ pc'[r] = "done" /\ resp'[r].status = 200)
              => \A row \in refresh_tokens :
                    row.session # arg[r].session => row \in refresh_tokens' ]_vars

\* C9: a refresh leaves refresh_tokens as it is, whatever it answers, and a
\* refresh with a stored token that no logout ever deleted, unexpired and hit
\* by no storage failure, is answered 200 with a new access token of the
\* token's user and nothing else.
C9_RefreshKeepsToken ==
    [][ \A r \in Reqs :
          /\ (arg'[r].route = "refresh" /\ pc'[r] # pc[r]) => refresh_tokens' = refresh_tokens
          /\ LET tok == arg'[r].token IN
             ( /\ arg'[r].route = "refresh" /\ Finished(r)'
               /\ tok.key = "REFRESH_TOKEN" /\ now' < tok.exp
               /\ tok \notin hist'.deleted
               /\ hist'.throws = 0 )
             => /\ resp'[r].status = 200
                /\ DOMAIN resp'[r].data = {"accessToken"}
                /\ resp'[r].data.accessToken.key = "ACCESS_TOKEN"
                /\ resp'[r].data.accessToken.id = tok.id
                /\ \E row \in refresh_tokens' : row.token = tok ]_vars

\* The same token was refreshed twice, the second time after the first had
\* been answered, both with 200, and its row is still stored.
C9_Witness ==
    \E r1 \in Reqs, r2 \in Reqs :
        /\ r1 # r2 /\ IsRefresh(r1) /\ IsRefresh(r2)
        /\ arg[r1].token = arg[r2].token
        /\ <<r1, r2>> \notin hist.overlap /\ <<r2, r1>> \notin hist.overlap
        /\ Answered(r1, 200) /\ Answered(r2, 200)
        /\ refresh_tokens = {Session0}

\* ------------------------------------------------------------- delete

\* C11: a delete answered 200 removed the item's row in that very step and
\* returns the row as it was then (never an older reading of it); a delete
\* whose DELETE statement removed no row is not answered 200.
C11_DeleteReturnsRemovedRow ==
    [][ \A r \in Reqs :
          (pc[r] = "deleteDelete" /\ pc'[r] = "done" /\ resp'[r].status = 200)
              => LET i == parseInt(arg[r].id) IN
                    /\ i \in DOMAIN inventory
                    /\ i \notin DOMAIN inventory'
                    /\ resp'[r].data = inventory[i] ]_vars

\* ------------------------------------------------------------- signup

\* The users table's index on username (username is unique): an INSERT of a
\* name some row already has fails with ER_DUP_ENTRY.
DuplicateUsername(tbl, name) == \E id \in DOMAIN tbl : tbl[id].username = name

\* The row of "INSERT INTO users (username, password, role)" of line 39-42.
UserRowAsAdmin(username, hashedPassword) ==
    [username |-> username, password |-> hashedPassword, role |-> "admin"]

UserRow(username, hashedPassword) ==
    [username |-> username, password |-> hashedPassword, role |-> "user"]

\* POST /signup up to its first await.
SignupArrive(r, username, password) ==
    /\ CanStart(r)
    /\ arg' = [arg EXCEPT ![r] = [route |-> "signup", username |-> username, password |-> password]]
    /\ IF username = "" \/ password = ""
       THEN Answer(r, Reply(400, "Username and password required"))
       ELSE Goto(r, "signupSelect") /\ UNCHANGED resp
    /\ UNCHANGED <<inventory, purchases, users, refresh_tokens, pool, loc, now, hist>>

\* The SELECT of lines 32-35, the 400 answer, bcrypt.hash is called.
SignupSelect(r) ==
    /\ pc[r] = "signupSelect"
    /\ IF UsersNamed(arg[r].username) # {}
       THEN Answer(r, Reply(400, "Username already taken"))
       ELSE Goto(r, "signupHash") /\ UNCHANGED resp
    /\ UNCHANGED <<inventory, purchases, users, refresh_tokens, pool, arg, loc, now, hist>>

\* bcrypt.hash resolves and the INSERT is sent.
SignupHash(r) ==
    /\ pc[r] = "signupHash"
    /\ loc' = [loc EXCEPT ![r] = [conn |-> 0, hashedPassword |-> BcryptHash(arg[r].password)]]
    /\ Goto(r, "signupInsert")
    /\ UNCHANGED <<inventory, purchases, users, refresh_tokens, pool, arg, resp, now, hist>>

\* The INSERT of lines 39-42: the 201 answer, or ER_DUP_ENTRY, which the catch
\* block answers like every other error, with 500.
SignupInsert(r) ==
    /\ pc[r] = "signupInsert"
    /\ IF DuplicateUsername(users, arg[r].username)
       THEN /\ Answer(r, Reply(500, "Database error"))
            /\ UNCHANGED users
       ELSE /\ users' = Append(users, UserRow(arg[r].username, loc[r].hashedPassword))
            /\ Answer(r, Reply(201, "Signup successful, please login"))
    /\ UNCHANGED <<inventory, purchases, refresh_tokens, pool, arg, loc, now, hist>>

\* A storage call of signup throws: the catch block answers 500.
SignupThrow(r) ==
    /\ pc[r] \in {"signupSelect", "signupInsert"}
    /\ Throws
    /\ Answer(r, Reply(500, "Database error"))
    /\ UNCHANGED <<inventory, purchases, users, refresh_tokens, pool, arg, loc, now>>

\* GET /inventory up to its first await: verifyToken, parseInt(req.query.limit).
ListArrive(r, auth, limit) ==
    /\ CanStart(r)
    /\ arg' = [arg EXCEPT ![r] = [route |-> "list", auth |-> auth, limit |-> limit]]
    /\ IF VerifyGate(auth, now) # NoResp
       THEN Answer(r, VerifyGate(auth, now))
       ELSE Goto(r, "listSelect") /\ UNCHANGED resp
    /\ UNCHANGED <<inventory, purchases, users, refresh_tokens, pool, loc, now, hist>>

\* "SELECT * FROM inventory LIMIT ?" when limit > 0, else every row; the rows
\* come in the order of their ids.
ListSelect(r) ==
    /\ pc[r] = "listSelect"
    /\ LET n == parseInt(arg[r].limit)
           ids == IF n > 0
                  THEN {i \in DOMAIN inventory :
                           Cardinality({j \in DOMAIN inventory : j < i}) < n}
                  ELSE DOMAIN inventory
       IN Answer(r, ReplyData(200, "", [i \in ids |-> inventory[i]]))
    /\ UNCHANGED <<inventory, purchases, users, refresh_tokens, pool, arg, loc, now, hist>>

\* The access tokens clients hold: alice's of the login that stored Session0,
\* and those answered to a login or a refresh.
AccessTokensHeld ==
    {SignAccess(1, "user", 0)} \cup
    {resp[q].data.accessToken :
        q \in {x \in Reqs : arg[x].route \in {"login", "refresh"} /\ Answered(x, 200)}}

\* Name and password of a signup: a new name, a taken one, none.
Signups == {<<"carol", "pw4">>, <<"alice", "pw4">>, <<"", "pw4">>}

\* Name and password of a login: the new user, a user, an admin.
AccountLogins == {<<"carol", "pw4">>, <<"alice", "pw1">>, <<"root", "pw3">>}

NextAccounts ==
    \E r \in Reqs :
        \/ \E u \in Signups : SignupArrive(r, u[1], u[2])
        \/ SignupSelect(r)
        \/ SignupHash(r)
        \/ SignupInsert(r)
        \/ SignupThrow(r)
        \/ \E l \in AccountLogins : LoginArrive(r, l[1], l[2])
        \/ LoginSelect(r)
        \/ LoginCompare(r)
        \/ LoginInsert(r)
        \/ \E p \in Issued : RefreshArrive(r, p.token, p.session)
        \/ RefreshSelectToken(r)
        \/ RefreshSelectUser(r)
        \/ \E p \in Issued : LogoutArrive(r, p.token, p.session)
        \/ LogoutDelete(r)
        \/ AuthThrow(r)
        \/ \E a \in AccessTokensHeld : GetArrive(r, a, "1")
        \/ GetSelect(r)

SpecAccounts == InitAuth /\ [][NextAccounts]_vars

\* The whole service: sessions come and go while the holders of access tokens
\* call every inventory route, and time passes.
NextService ==
    \/ \E r \in Reqs :
          \/ \E l \in {<<"alice", "pw1">>, <<"root", "pw3">>} : LoginArrive(r, l[1], l[2])
          \/ LoginSelect(r)
          \/ LoginCompare(r)
          \/ LoginInsert(r)
          \/ \E p \in Issued : RefreshArrive(r, p.token, p.session)
          \/ RefreshSelectToken(r)
          \/ RefreshSelectUser(r)
          \/ \E p \in Issued : LogoutArrive(r, p.token, p.session)
          \/ LogoutDelete(r)
          \/ \E a \in AccessTokensHeld :
                \/ ListArrive(r, a, "x")
                \/ GetArrive(r, a, "1")
                \/ CreateArrive(r, a, Body(2, "ink", 1, TRUE, 7))
                \/ UpdateArrive(r, a, "1", UpdateBody)
                \/ DeleteArrive(r, a, "1")
                \/ PurchaseArrive(r, a, "1", 1)
          \/ ListSelect(r)
          \/ GetSelect(r)
          \/ CreateInsert(r)
          \/ DeleteSelect(r)
          \/ DeleteDelete(r)
          \/ PurchaseGetConnection(r)
          \/ PurchaseBeginTransaction(r)
          \/ PurchaseUpdate(r)
          \/ PurchaseRollback(r)
          \/ PurchaseCheckRows(r)
          \/ PurchaseInsert(r)
          \/ PurchaseCommit(r)
    \/ Tick

SpecService == InitAuth /\ [][NextService]_vars

IsSignup(r) == arg[r].route = "signup"

\* C12: under every interleaving of signups the users table never holds two
\* rows of one username, at most one signup of a name is answered 201, and,
\* with no storage failure, a completed signup with name and password that was
\* not answered 201 was answered 400.
C12_UsernamesUnique ==
    /\ \A id1 \in DOMAIN users, id2 \in DOMAIN users :
          users[id1].username = users[id2].username => id1 = id2
    /\ \A r1 \in Reqs, r2 \in Reqs :
          ( /\ IsSignup(r1) /\ IsSignup(r2) /\ arg[r1].username = arg[r2].username
            /\ Answered(r1, 201) /\ Answered(r2, 201) ) => r1 = r2
    /\ \A r \in Reqs :
          (IsSignup(r) /\ Finished(r) /\ hist.throws = 0 /\ ~Answered(r, 201))
              => Answered(r, 400)

\* ------------------------------------------------------------- create

\* C13: the INSERT of a create request for an id that exists is answered 400
\* and leaves the inventory as it is; for a new id it adds exactly one row, with
\* the body's name, stock and price (NULL when the body has none), and answers
\* 201; a storage failure adds nothing; and a get answered 200 returns the
\* item's row as it is stored, so that a get that follows the create returns
\* the fields the create stored.
C13_CreateThenGet ==
    [][ \A r \in Reqs :
          /\ (pc[r] = "createInsert" /\ pc'[r] = "done") =>
                LET b == arg[r].body IN
                IF resp'[r].status = 500 THEN inventory' = inventory
                ELSE IF b.id \in DOMAIN inventory
                THEN resp'[r].status = 400 /\ inventory' = inventory
                ELSE /\ resp'[r].status = 201
                     /\ DOMAIN inventory' = DOMAIN inventory \cup {b.id}
                     /\ \A j \in DOMAIN inventory : inventory'[j] = inventory[j]
                     /\ inventory'[b.id] = Row(b.name, b.stock, SqlValue(b.price))
          /\ (pc[r] = "getSelect" /\ pc'[r] = "done" /\ resp'[r].status = 200) =>
                /\ parseInt(arg[r].id) \in DOMAIN inventory
                /\ resp'[r].data = inventory[parseInt(arg[r].id)]
                /\ inventory' = inventory ]_vars

\* A create of item 2 was answered 201, a get of item 2 arrived after that and
\* was answered 200 with the fields of the create's body.
C13_Witness ==
    \E r1 \in Reqs, r2 \in Reqs :
        /\ r1 < r2 /\ <<r2, r1>> \notin hist.overlap
        /\ arg[r1].route = "create" /\ Answered(r1, 201)
        /\ arg[r2].route = "get" /\ parseInt(arg[r2].id) = arg[r1].body.id
        /\ Answered(r2, 200)
        /\ resp[r2].data = Row(arg[r1].body.name, arg[r1].body.stock, arg[r1].body.price)

\* ------------------------------------------ the cause a purchase reports

\* C14: a purchase answered 404 found no such item when its conditional UPDATE
\* ran, and one answered 400 "Insufficient stock" found the item then with a
\* stock below its quantity, whatever creates, deletes and purchases ran
\* meanwhile.
C14_ReportedCauseIsReal ==
    \A r \in Reqs :
        (IsPurchase(r) /\ pc[r] = "done") =>
            /\ resp[r].status = 404 => hist.cause[r] = "absent"
            /\ resp[r].message = "Insufficient stock" => hist.cause[r] = "insufficient"

\* ------------------------------------------- every purchase is answered

\* C15: a purchase request whose handler has ended was sent a response, also
\* when a storage call failed, and a handler that went through the catch
\* block answered 500.
C15_EveryPurchaseAnswered ==
    \A r \in Reqs :
        (IsPurchase(r) /\ Finished(r)) =>
            /\ pc[r] = "done"
            /\ resp[r] # NoResp

\* ------------------------------------------- connections go back clean

\* C19: a purchase request whose handler has ended holds no connection, and a
\* connection that is back in the pool has no open transaction: what the
\* request began on it was committed or rolled back before the release.
C19_ReleasedWithoutOpenTransaction ==
    /\ \A r \in Reqs : Finished(r) => \A c \in Conns : pool[c].owner # r
    /\ \A c \in Conns : pool[c].owner = 0 => pool[c].tx = NoTx

\* ------------------------------------------- stock over the whole service

\* C17: every row of inventory has stock >= 0 in every reachable state, with
\* create, update, delete and purchase requests of any body running.
C17_StockNonNegativeEverywhere ==
    \A i \in DOMAIN inventory : inventory[i].stock >= 0

\* ------------------------------------------------------------- roles

IsLogin(r) == arg[r].route = "login"

\* C18: no step of a signup, login, refresh, logout or inventory request
\* changes or removes a row of users; a row a step adds has role "user"; and
\* an access token a login signs or a login or refresh answers carries the id
\* of a users row and the role stored in that row.
C18_NoPrivilegeEscalation ==
    [][ /\ \A id \in DOMAIN users : id \in DOMAIN users' /\ users'[id] = users[id]
        /\ \A id \in DOMAIN users' \ DOMAIN users : users'[id].role = "user"
        /\ \A r \in Reqs :
              /\ (pc[r] = "loginCompare" /\ pc'[r] = "loginInsert") =>
                    LET t == loc'[r].accessToken IN
                       t.id \in DOMAIN users /\ t.role = users[t.id].role
              /\ ( /\ pc[r] # "done" /\ pc'[r] = "done" /\ resp'[r].status = 200
                   /\ (IsLogin(r) \/ IsRefresh(r)) ) =>
                    LET t == resp'[r].data.accessToken IN
                       /\ t.key = "ACCESS_TOKEN"
                       /\ t.id \in DOMAIN users'
                       /\ t.role = users'[t.id].role
                       /\ IsLogin(r) => resp'[r].data.role = users'[t.id].role ]_vars

\* carol signed up and then logged in: her row and her access token have role
\* "user", and the admin's row is as it was.
C18_Witness ==
    \E r1 \in Reqs, r2 \in Reqs :
        /\ IsSignup(r1) /\ Answered(r1, 201) /\ arg[r1].username = "carol"
        /\ IsLogin(r2) /\ Answered(r2, 200) /\ arg[r2].username = "carol"
        /\ Len(users) = Len(Users0) + 1
        /\ users[Len(users)].role = "user"
        /\ resp[r2].data.accessToken.id = Len(users)
        /\ resp[r2].data.accessToken.role = "user"
        /\ users[3] = Users0[3]

\* ------------------------------------------- access tokens after logout

InventoryRoutes == {"list", "get", "create", "update", "delete", "purchase"}

\* C16: a request to any inventory route that carries an access token signed
\* with the access key and unexpired is let through by verifyToken (it is
\* answered neither 401 nor 403 "Invalid token"), whatever refresh_tokens
\* holds, in particular once a logout has deleted the session's refresh token;
\* a request whose token does not verify is answered 401 or 403; and a logout
\* changes nothing but refresh_tokens.
C16_AccessTokenOutlivesLogout ==
    [][ \A r \in Reqs :
          /\ (pc[r] = "new" /\ pc'[r] # "new" /\ arg'[r].route \in InventoryRoutes) =>
                IF JwtVerify(arg'[r].auth, "ACCESS_TOKEN", now)
                THEN /\ resp'[r].status # 401
                     /\ resp'[r].message \notin {"No token provided", "Invalid token"}
                ELSE pc'[r] = "done" /\ resp'[r].status \in {401, 403}
          /\ (pc[r] = "logoutDelete" /\ pc'[r] = "done") =>
                /\ users' = users /\ inventory' = inventory /\ purchases' = purchases
                /\ now' = now ]_vars

\* alice's session was logged out; after that her access token, still
\* unexpired, was sent with a get, which was answered 200 with the item, while
\* refresh_tokens holds no row of hers.
C16_Witness ==
    \E r1 \in Reqs, r2 \in Reqs :
        /\ r1 < r2 /\ <<r2, r1>> \notin hist.overlap
        /\ IsLogout(r1) /\ Answered(r1, 200) /\ arg[r1].token = Session0.token
        /\ arg[r2].route = "get" /\ arg[r2].auth = SignAccess(1, "user", 0)
        /\ Answered(r2, 200) /\ resp[r2].data = inventory[1]
        /\ \A row \in refresh_tokens : row.user_id # 1

====
